---- MODULE Spec2Model ----
(***************************************************************************)
(* Model of src/sam_emailer.py: the fetch / deduplicate / export / mail    *)
(* pipeline of main(), and the pure function build_csv.                     *)
(*                                                                         *)
(* Text is modelled as a sequence of tokens.  The four characters the csv   *)
(* writer treats specially (comma, double quote, carriage return, line      *)
(* feed) are tokens of their own; every other token stands for a run of     *)
(* ordinary characters.  An opportunity record is a function from the       *)
(* field names it populates to such texts.                                  *)
(*                                                                         *)
(* send_mail is modelled with lines 87-94 of the source read as part of     *)
(* the try block that encloses them (they are indented one level short).    *)
(***************************************************************************)
EXTENDS Integers, Sequences, FiniteSets, TLC

VARIABLES cfg, pc, kw, resp, all_opps, opps, csv_data, log, calls, exit, err, sent

vars == <<cfg, pc, kw, resp, all_opps, opps, csv_data, log, calls, exit, err, sent>>

----------------------------------------------------------------------------
(* Bounds of the model *)

\* records one response may carry
MaxPerKw == 2
\* records received over a whole run
MaxOpps == 2
\* records handed to build_csv when it is checked on its own
MaxRows == 2

----------------------------------------------------------------------------
(* Text *)

COMMA == ","
DQUOTE == "\""
CR == "\r"
LF == "\n"

RECURSIVE Flatten(_)
Flatten(ss) == IF ss = <<>> THEN <<>> ELSE Head(ss) \o Flatten(Tail(ss))

----------------------------------------------------------------------------
(* build_csv, lines 56-67, with csv.DictWriter's default dialect *)

fieldnames == << <<"noticeId">>, <<"title">>, <<"department">>, <<"subTier">>,
                 <<"type">>, <<"postedDate">>, <<"reponseDeadLine">>, <<"uiLink">> >>

FieldKey(k) == fieldnames[k][1]

Placeholder == [noticeId |-> <<"none">>, title |-> <<"No matching opportunities">>]

\* o.get(k, "")
Get(o, k) == IF k \in DOMAIN o THEN o[k] ELSE <<>>

\* a row that holds only the cells of the fields the record populates
RowCellsPopulated(o) ==
    LET present == SelectSeq(fieldnames, LAMBDA f : f[1] \in DOMAIN o)
    IN  [k \in 1..Len(present) |-> o[present[k][1]]]

\* {k: o.get(k, "") for k in fieldnames}, as the cells in schema order
RowCells(o) == [k \in 1..Len(fieldnames) |-> Get(o, FieldKey(k))]

\* QUOTE_MINIMAL: a field is quoted when it holds the delimiter, the quote
\* character or a character of the line terminator
NeedsQuote(s) == \E p \in 1..Len(s) : s[p] \in {COMMA, DQUOTE, CR, LF}

\* doublequote = True
DoubleQuotes(s) == Flatten([p \in 1..Len(s) |->
                      IF s[p] = DQUOTE THEN <<DQUOTE, DQUOTE>> ELSE <<s[p]>>])

\* a writer that never quotes
WriteFieldRaw(s) == s

WriteField(s) == IF NeedsQuote(s) THEN <<DQUOTE>> \o DoubleQuotes(s) \o <<DQUOTE>>
                 ELSE s

\* writer.writerow: fields joined by the delimiter, ended by "\r\n"
WriteRow(cells) ==
    Flatten([k \in 1..Len(cells) |->
               IF k = 1 THEN WriteField(cells[k])
               ELSE <<COMMA>> \o WriteField(cells[k])]) \o <<CR, LF>>

WriteHeader == WriteRow(fieldnames)

\* the placeholder row appended whatever the list holds
build_csvPlaceholderAlways(os) ==
    LET rows == os \o <<Placeholder>>
    IN  WriteHeader \o Flatten([r \in 1..Len(rows) |-> WriteRow(RowCells(rows[r]))])

build_csv(os) ==
    LET rows == IF os = <<>> THEN <<Placeholder>> ELSE os
    IN  WriteHeader \o Flatten([r \in 1..Len(rows) |-> WriteRow(RowCells(rows[r]))])

----------------------------------------------------------------------------
(* Reading a document back: the text lines of the document, and the rows a  *)
(* CSV reader of the same dialect finds in it.  Used to state properties.   *)

LineCount(text) == Cardinality({p \in 1..Len(text) : text[p] = LF})

\* st: "start" (of a field), "plain", "quoted", "qq" (quote seen inside a
\* quoted field), "eol" (after the CR that ended a row)
RECURSIVE ReadFrom(_, _, _, _, _, _)
ReadFrom(text, p, st, cell, row, rows) ==
    IF p > Len(text)
    THEN IF st = "eol" \/ (st = "start" /\ row = <<>>) THEN rows
         ELSE Append(rows, Append(row, cell))
    ELSE LET c == text[p]
             endField == ReadFrom(text, p + 1, "start", <<>>, Append(row, cell), rows)
             endRow == ReadFrom(text, p + 1, IF c = CR THEN "eol" ELSE "start",
                                <<>>, <<>>, Append(rows, Append(row, cell)))
             take(next) == ReadFrom(text, p + 1, next, Append(cell, c), row, rows)
         IN  CASE st = "eol" ->
                    IF c = LF THEN ReadFrom(text, p + 1, "start", <<>>, <<>>, rows)
                    ELSE ReadFrom(text, p, "start", <<>>, <<>>, rows)
               [] st = "start" ->
                    IF c = DQUOTE THEN ReadFrom(text, p + 1, "quoted", <<>>, row, rows)
                    ELSE IF c = COMMA THEN endField
                    ELSE IF c \in {CR, LF} THEN endRow
                    ELSE take("plain")
               [] st = "plain" ->
                    IF c = COMMA THEN endField
                    ELSE IF c \in {CR, LF} THEN endRow
                    ELSE take("plain")
               [] st = "quoted" ->
                    IF c = DQUOTE THEN ReadFrom(text, p + 1, "qq", cell, row, rows)
                    ELSE take("quoted")
               [] st = "qq" ->
                    IF c = DQUOTE THEN take("quoted")
                    ELSE IF c = COMMA THEN endField
                    ELSE IF c \in {CR, LF} THEN endRow
                    ELSE take("plain")

ReadCsv(text) == ReadFrom(text, 1, "start", <<>>, <<>>, <<>>)

----------------------------------------------------------------------------
(* fetch_opps, lines 19-54 *)

keywords == <<"voice", "voip", "cisco", "webex", "ccum", "data">>

\* the statuses other than 200 (line 44) the search endpoint answers with
BadStatuses == {500}

HasKey(o) == "noticeId" \in DOMAIN o

\* a merge that keeps the first record seen for a key (dict.setdefault)
DictPutKeepFirst(d, o) ==
    IF \E p \in 1..Len(d) : d[p].noticeId = o.noticeId THEN d ELSE Append(d, o)

\* one assignment d[o["noticeId"]] = o of the dict comprehension: an existing
\* key keeps its position and takes the new value, a new key is appended
DictPut(d, o) ==
    IF \E p \in 1..Len(d) : d[p].noticeId = o.noticeId
    THEN [p \in 1..Len(d) |-> IF d[p].noticeId = o.noticeId THEN o ELSE d[p]]
    ELSE Append(d, o)

\* list({o["noticeId"]: o for o in all_opps}.values())
RECURSIVE Dedup(_)
Dedup(all) ==
    IF all = <<>> THEN <<>>
    ELSE DictPut(Dedup(SubSeq(all, 1, Len(all) - 1)), all[Len(all)])

----------------------------------------------------------------------------
(* What the environment may supply *)

Required == {"SAM_API_KEY", "SENDGRID_API_KEY", "FROM_EMAIL", "TO_EMAIL"}

Ids == {<<"n1">>, <<"n2">>}

\* records a response may carry: two versions of one notice, another notice,
\* and a record without noticeId
ApiRecords == {[noticeId |-> <<"n1">>, title |-> <<"a">>],
               [noticeId |-> <<"n1">>, title |-> <<"b">>],
               [noticeId |-> <<"n2">>, title |-> <<"a">>],
               [title |-> <<"a">>]}

RECURSIVE ListsUpTo(_, _)
ListsUpTo(S, n) ==
    IF n = 0 THEN {<<>>}
    ELSE LET shorter == ListsUpTo(S, n - 1)
         IN  shorter \cup {Append(l, x) : l \in shorter, x \in S}

Min(a, b) == IF a <= b THEN a ELSE b

\* non-empty lists of "opportunitiesData" the current response may carry
Bodies == ListsUpTo(ApiRecords, Min(MaxPerKw, MaxOpps - Len(all_opps))) \ {<<>>}

\* statuses other than 202 that sg.send may return without raising
OtherSendStatuses == {400}

ACCEPTED == 202

----------------------------------------------------------------------------
(* main, lines 135-174 *)

Init ==
    /\ cfg \in SUBSET Required
    /\ pc = "start"
    /\ kw = 1
    /\ resp = <<>>
    /\ all_opps = <<>>
    /\ opps = <<>>
    /\ csv_data = <<>>
    /\ log = <<>>
    /\ calls = <<>>
    /\ exit = <<>>
    /\ err = "none"
    /\ sent = <<>>

\* an exception nobody catches: traceback, exit status 1
Raise(e) ==
    /\ err' = e
    /\ exit' = <<1>>
    /\ pc' = "done"

\* lines 150-153
ConfigMissing ==
    /\ pc = "start"
    /\ cfg # Required
    /\ log' = Append(log, <<"missing_env", 0>>)
    /\ exit' = <<1>>
    /\ pc' = "done"
    /\ UNCHANGED <<cfg, kw, resp, all_opps, opps, csv_data, calls, err, sent>>

\* a check that looks at the search key only
ConfigOkSamKeyOnly ==
    /\ pc = "start"
    /\ "SAM_API_KEY" \in cfg
    /\ pc' = "fetch"
    /\ UNCHANGED <<cfg, kw, resp, all_opps, opps, csv_data, log, calls, exit, err, sent>>

\* lines 150-156
ConfigOk ==
    /\ pc = "start"
    /\ cfg = Required
    /\ pc' = "fetch"
    /\ UNCHANGED <<cfg, kw, resp, all_opps, opps, csv_data, log, calls, exit, err, sent>>

\* line 42, the request going out
IssueGet ==
    /\ pc = "fetch"
    /\ kw <= Len(keywords)
    /\ calls' = Append(calls, <<"GET", keywords[kw]>>)
    /\ pc' = "wait"
    /\ UNCHANGED <<cfg, kw, resp, all_opps, opps, csv_data, log, exit, err, sent>>

\* the loop moving on to the next keyword, or leaving for line 52
NextKeyword ==
    /\ kw' = kw + 1
    /\ pc' = IF kw = Len(keywords) THEN "dedup" ELSE "fetch"

\* line 42: requests.get raises (timeout, connection error)
GetRaises ==
    /\ pc = "wait"
    /\ resp' = Append(resp, [kind |-> "timeout", body |-> <<>>])
    /\ Raise("Timeout")
    /\ UNCHANGED <<cfg, kw, all_opps, opps, csv_data, log, calls, sent>>

\* a non-200 answer ending the run (raise_for_status)
GetNon200Aborts ==
    /\ pc = "wait"
    /\ \E s \in BadStatuses : log' = Append(log, <<"error", s>>)
    /\ resp' = Append(resp, [kind |-> "non200", body |-> <<>>])
    /\ Raise("HTTPError")
    /\ UNCHANGED <<cfg, kw, all_opps, opps, csv_data, calls, sent>>

\* a non-200 answer making the loop ask for the same keyword again
GetNon200Retries ==
    /\ pc = "wait"
    /\ \E s \in BadStatuses : log' = Append(log, <<"error", s>>)
    /\ resp' = Append(resp, [kind |-> "non200", body |-> <<>>])
    /\ pc' = "fetch"
    /\ UNCHANGED <<cfg, kw, all_opps, opps, csv_data, calls, exit, err, sent>>

\* lines 48-49
GetNon200 ==
    /\ pc = "wait"
    /\ \E s \in BadStatuses : log' = Append(log, <<"error", s>>)
    /\ resp' = Append(resp, [kind |-> "non200", body |-> <<>>])
    /\ NextKeyword
    /\ UNCHANGED <<cfg, all_opps, opps, csv_data, calls, exit, err, sent>>

\* line 45: status 200, r.json() raises on a body that is not JSON
GetNonJson ==
    /\ pc = "wait"
    /\ resp' = Append(resp, [kind |-> "nonjson", body |-> <<>>])
    /\ Raise("JSONDecodeError")
    /\ UNCHANGED <<cfg, kw, all_opps, opps, csv_data, log, calls, sent>>

\* lines 45-47, the records of a status-200 response joining all_opps
Extend(body) ==
    /\ log' = Append(log, <<"count", Len(body)>>)
    /\ all_opps' = all_opps \o body
    /\ NextKeyword
    /\ UNCHANGED <<cfg, opps, csv_data, calls, exit, err, sent>>

\* lines 45-47: status 200, a JSON object without "opportunitiesData";
\* .get("opportunitiesData", []) supplies the empty list
GetNoKey ==
    /\ pc = "wait"
    /\ resp' = Append(resp, [kind |-> "nokey", body |-> <<>>])
    /\ Extend(<<>>)

\* lines 45-47: status 200, "opportunitiesData" is an empty list
GetEmpty ==
    /\ pc = "wait"
    /\ resp' = Append(resp, [kind |-> "ok", body |-> <<>>])
    /\ Extend(<<>>)

\* lines 45-47: status 200, "opportunitiesData" carries records
GetRecords ==
    /\ pc = "wait"
    /\ \E body \in Bodies :
          /\ resp' = Append(resp, [kind |-> "ok", body |-> body])
          /\ Extend(body)

\* a merge that passes over the records without noticeId
DedupStepSkipping ==
    /\ pc = "dedup"
    /\ opps' = Dedup(SelectSeq(all_opps, HasKey))
    /\ log' = Append(log, <<"unique", Len(opps')>>)
    /\ pc' = "csv"
    /\ UNCHANGED <<cfg, kw, resp, all_opps, csv_data, calls, exit, err, sent>>

\* lines 52-54 and 157: o["noticeId"] raises KeyError on a record without it
DedupStep ==
    /\ pc = "dedup"
    /\ IF \A p \in 1..Len(all_opps) : HasKey(all_opps[p])
       THEN /\ opps' = Dedup(all_opps)
            /\ log' = Append(log, <<"unique", Len(opps')>>)
            /\ pc' = "csv"
            /\ UNCHANGED <<exit, err>>
       ELSE /\ Raise("KeyError")
            /\ UNCHANGED <<opps, log>>
    /\ UNCHANGED <<cfg, kw, resp, all_opps, csv_data, calls, sent>>

\* lines 159-167
BuildCsvStep ==
    /\ pc = "csv"
    /\ csv_data' = build_csv(opps)
    /\ pc' = "send"
    /\ UNCHANGED <<cfg, kw, resp, all_opps, opps, log, calls, exit, err, sent>>

\* line 107, the message handed to the SendGrid client
CallSend == calls' = Append(calls, <<"SEND", "sendgrid">>)

\* lines 173-174
Success ==
    /\ exit' = <<0>>
    /\ pc' = "done"
    /\ UNCHANGED err

\* lines 107-118, 173-174: the client answers 202
SendAccepted ==
    /\ pc = "send"
    /\ CallSend
    /\ sent' = Append(sent, "accepted")
    /\ log' = log \o << <<"sendgrid_status", ACCEPTED>>, <<"accepted", ACCEPTED>>,
                        <<"success", 0>> >>
    /\ Success
    /\ UNCHANGED <<cfg, kw, resp, all_opps, opps, csv_data>>

\* lines 107-112, 173-174: the client returns a response whose status is not
\* 202; the if at line 112 has no else
SendNotAccepted ==
    /\ pc = "send"
    /\ CallSend
    /\ sent' = Append(sent, "rejected")
    /\ \E s \in OtherSendStatuses :
          log' = log \o << <<"sendgrid_status", s>>, <<"success", 0>> >>
    /\ Success
    /\ UNCHANGED <<cfg, kw, resp, all_opps, opps, csv_data>>

\* lines 107, 120-133: the client raises; send_mail prints and re-raises
SendRaises ==
    /\ pc = "send"
    /\ CallSend
    /\ sent' = Append(sent, "raised")
    /\ log' = Append(log, <<"sendgrid_error", 0>>)
    /\ Raise("SendGridError")
    /\ UNCHANGED <<cfg, kw, resp, all_opps, opps, csv_data>>

Next ==
    \/ ConfigMissing
    \/ ConfigOk
    \/ IssueGet
    \/ GetRaises
    \/ GetNon200
    \/ GetNonJson
    \/ GetNoKey
    \/ GetEmpty
    \/ GetRecords
    \/ DedupStep
    \/ BuildCsvStep
    \/ SendAccepted
    \/ SendNotAccepted
    \/ SendRaises

Spec == Init /\ [][Next]_vars

----------------------------------------------------------------------------
(* build_csv on its own: any list of records, then lines 159-160 *)

CellTexts == {<<>>, <<"a">>, <<"a", COMMA, "b">>, <<DQUOTE, "a", DQUOTE>>,
              <<"a", LF, "b">>}

\* "solicitationNumber" is a field the API sends and the schema does not have
CsvFields == {"noticeId", "title", "uiLink", "solicitationNumber"}

FieldTexts(f) ==
    CASE f = "noticeId" -> {<<"n1">>}
      [] f = "title" -> CellTexts
      [] f = "uiLink" -> {<<"u">>}
      [] f = "solicitationNumber" -> {<<"s">>}

AllTexts == UNION {FieldTexts(f) : f \in CsvFields}

CsvRecords ==
    UNION {{o \in [D -> AllTexts] : \A f \in D : o[f] \in FieldTexts(f)} :
             D \in SUBSET CsvFields}

InitCsv ==
    /\ cfg = Required
    /\ pc = "csv"
    /\ kw = Len(keywords) + 1
    /\ resp = <<>>
    /\ all_opps = <<>>
    /\ opps \in ListsUpTo(CsvRecords, MaxRows)
    /\ csv_data = <<>>
    /\ log = <<>>
    /\ calls = <<>>
    /\ exit = <<>>
    /\ err = "none"
    /\ sent = <<>>

SpecCsv == InitCsv /\ [][BuildCsvStep]_vars

----------------------------------------------------------------------------
(* Properties of the exported document *)

\* build_csv has returned its document
Built == csv_data # <<>>

\* the document is about to be handed to send_mail (line 171); nothing
\* assigns csv_data or opps after this point
Exported == pc = "send"

ExpectedRows == IF opps = <<>> THEN 2 ELSE Len(opps) + 1

\* some cell written for some record holds a line break
SomeCellBreaksLine ==
    \E r \in 1..Len(opps) : \E k \in 1..Len(fieldnames) :
        \E p \in 1..Len(RowCells(opps[r])[k]) : RowCells(opps[r])[k][p] \in {CR, LF}

\* C6, as stated: the document build_csv produces has exactly len(R) + 1
\* text lines when R is non-empty and exactly 2 when R is empty.
C6_LineCount == Exported => LineCount(csv_data) = ExpectedRows

\* C6, amended: the document has exactly len(R) + 1 CSV rows (2 when R is
\* empty), and that is also its number of text lines whenever no exported
\* cell holds a line break.
C6_RowCount ==
    Exported =>
        /\ Len(ReadCsv(csv_data)) = ExpectedRows
        /\ ~SomeCellBreaksLine => LineCount(csv_data) = ExpectedRows

C6_Witness ==
    /\ Built
    /\ Len(opps) = 2
    /\ SomeCellBreaksLine
    /\ LineCount(csv_data) > 3
    /\ Len(ReadCsv(csv_data)) = 3

\* C8: every record's row has one cell per declared column, in schema
\* order, holding the record's value for the field, or the empty string when
\* the record lacks the field.
C8_EveryColumnHasACell ==
    (Exported /\ opps # <<>>) =>
        LET rows == ReadCsv(csv_data)
        IN  /\ Len(rows) = Len(opps) + 1
            /\ rows[1] = fieldnames
            /\ \A r \in 1..Len(opps) :
                  /\ Len(rows[r + 1]) = Len(fieldnames)
                  /\ \A k \in 1..Len(fieldnames) :
                        rows[r + 1][k] = IF FieldKey(k) \in DOMAIN opps[r]
                                         THEN opps[r][FieldKey(k)]
                                         ELSE <<>>

C8_Witness ==
    /\ Built
    /\ Len(opps) = 2
    /\ DOMAIN opps[1] = {"uiLink", "solicitationNumber"}
    /\ DOMAIN opps[2] = {"noticeId", "title"}
    /\ opps[2].title = <<"a", COMMA, "b">>
    /\ ReadCsv(csv_data)[2][1] = <<>>
    /\ ReadCsv(csv_data)[2][8] = <<"u">>

----------------------------------------------------------------------------
(* Properties of a run of main *)

\* fetch_opps has returned its list
Returned == pc \in {"csv", "send"} \/ Built

\* the records of the status-200 responses, in keyword order
OkBodies == Flatten([k \in 1..Len(resp) |->
                       IF resp[k].kind = "ok" THEN resp[k].body ELSE <<>>])

Contains(k, id) ==
    \E j \in 1..Len(resp[k].body) :
        HasKey(resp[k].body[j]) /\ resp[k].body[j].noticeId = id

ReceivedIds == {id \in Ids : \E k \in 1..Len(resp) : Contains(k, id)}

\* the record with this noticeId that the last keyword to carry one delivered
\* (the last one of its list)
LastVersion(id) ==
    LET K == CHOOSE k \in 1..Len(resp) :
                Contains(k, id) /\ \A j \in (k + 1)..Len(resp) : ~Contains(j, id)
        b == resp[K].body
        P == CHOOSE p \in 1..Len(b) :
                /\ HasKey(b[p]) /\ b[p].noticeId = id
                /\ \A q \in (p + 1)..Len(b) : ~(HasKey(b[q]) /\ b[q].noticeId = id)
    IN  b[P]

\* C1: the list fetch_opps returns holds exactly one entry per distinct
\* noticeId of the per-keyword lists, and that entry is the version of the
\* last-processed keyword that carried the noticeId.
C1_LastWriteWins ==
    Returned =>
        /\ \A p, q \in 1..Len(opps) : opps[p].noticeId = opps[q].noticeId => p = q
        /\ {opps[p].noticeId : p \in 1..Len(opps)} = ReceivedIds
        /\ \A p \in 1..Len(opps) : opps[p] = LastVersion(opps[p].noticeId)

C1_Witness ==
    /\ Returned
    /\ \E j, k \in 1..Len(resp) :
          /\ j < k
          /\ resp[j].body = <<[noticeId |-> <<"n1">>, title |-> <<"b">>]>>
          /\ resp[k].body = <<[noticeId |-> <<"n1">>, title |-> <<"a">>]>>
    /\ opps = <<[noticeId |-> <<"n1">>, title |-> <<"a">>]>>

\* C2: a keyword answered with a non-200 status contributes no record, the
\* loop goes on to the next keyword, and every record of a status-200
\* response is, after deduplication, in the returned list and in the CSV.
C2_Non200Skipped ==
    \A k \in 1..Len(resp) : resp[k].kind = "non200" =>
        /\ all_opps = OkBodies
        /\ \E s \in BadStatuses : log[k] = <<"error", s>>
        /\ k < Len(keywords) =>
              \/ pc = "fetch" /\ kw = k + 1
              \/ Len(calls) > k /\ calls[k + 1] = <<"GET", keywords[k + 1]>>
        /\ Returned =>
              \A id \in ReceivedIds : \E p \in 1..Len(opps) : opps[p] = LastVersion(id)
        /\ Exported =>
              LET rows == ReadCsv(csv_data)
              IN  \A id \in ReceivedIds :
                      \E r \in 2..Len(rows) : rows[r] = RowCells(LastVersion(id))

C2_Witness ==
    /\ pc = "done"
    /\ exit = <<0>>
    /\ resp[1].kind = "ok" /\ resp[1].body # <<>>
    /\ resp[2].kind = "non200"
    /\ resp[3].kind = "ok" /\ resp[3].body # <<>>
    /\ Len(ReadCsv(csv_data)) = 3

\* C3: with a required configuration value absent the run ends with status
\* 1 and the missing-variables diagnostic, no request to the search endpoint
\* and no call of the mailer having been made.
C3_ConfigMissing ==
    cfg # Required =>
        /\ calls = <<>>
        /\ sent = <<>>
        /\ pc \in {"start", "done"}
        /\ pc = "start" => ENABLED ConfigMissing
        /\ pc = "done" => exit = <<1>> /\ log = << <<"missing_env", 0>> >>

C3_Witness ==
    /\ pc = "done"
    /\ cfg = Required \ {"TO_EMAIL"}
    /\ exit = <<1>>

\* what a run shows to the outside: its diagnostics, exit status and document
Observable == <<log, exit, csv_data>>

ZeroMatchLog == [k \in 1..Len(keywords) |-> <<"count", 0>>] \o << <<"unique", 0>> >>

\* what the runs show in which every keyword was answered with status 200
\* and an empty list, one for each way the send can go
ZeroMatchObservables ==
    { <<ZeroMatchLog \o << <<"sendgrid_status", ACCEPTED>>, <<"accepted", ACCEPTED>>,
                           <<"success", 0>> >>, <<0>>, build_csv(<<>>)>> }
    \cup { <<ZeroMatchLog \o << <<"sendgrid_status", s>>, <<"success", 0>> >>,
             <<0>>, build_csv(<<>>)>> : s \in OtherSendStatuses }
    \cup { <<Append(ZeroMatchLog, <<"sendgrid_error", 0>>), <<1>>, build_csv(<<>>)>> }

FetchFailed ==
    \E k \in 1..Len(resp) : resp[k].kind \in {"timeout", "nonjson", "nokey"}

\* C4: a run in which a request timed out, or was answered with a body that
\* is not JSON or with JSON lacking the results key, does not show what a
\* run shows in which every keyword legitimately returned an empty list.
C4_FetchErrorDistinct ==
    (pc = "done" /\ FetchFailed) => Observable \notin ZeroMatchObservables

\* C5: after a send the mailer reported as failed (the client raised, or it
\* answered with a status other than 202) the run does not end with status 0.
C5_FailedSendNotSuccess ==
    (pc = "done" /\ sent # <<>> /\ sent[1] \in {"raised", "rejected"}) => exit # <<0>>

\* C7: when no keyword yielded an opportunity the document is the header
\* and one placeholder row, "none" in the identifier cell and the message in
\* the title cell; with any opportunity there is no placeholder row, every
\* row is the row of a received record.
C7_PlaceholderOnlyWhenEmpty ==
    Exported =>
        LET rows == ReadCsv(csv_data)
        IN  /\ (\A k \in 1..Len(resp) : resp[k].body = <<>>) =>
                  /\ Len(rows) = 2
                  /\ rows[1] = fieldnames
                  /\ rows[2][1] = <<"none">>
                  /\ rows[2][2] = <<"No matching opportunities">>
                  /\ \A c \in 3..Len(fieldnames) : rows[2][c] = <<>>
            /\ (\E k \in 1..Len(resp) : resp[k].body # <<>>) =>
                  \A r \in 2..Len(rows) :
                      \E id \in ReceivedIds : rows[r] = RowCells(LastVersion(id))

C7_Witness ==
    /\ pc = "done"
    /\ exit = <<0>>
    /\ \A k \in 1..Len(resp) : resp[k].body = <<>>
    /\ \E k \in 1..Len(resp) : resp[k].kind = "non200"
    /\ \E k \in 1..Len(resp) : resp[k].kind = "ok"
    /\ ReadCsv(csv_data)[2][1] = <<"none">>

ExpectedCalls ==
    [k \in 1..Len(keywords) |-> <<"GET", keywords[k]>>] \o << <<"SEND", "sendgrid">> >>

GetsIssued == Cardinality({i \in 1..Len(calls) : calls[i][1] = "GET"})

\* C9: the external calls are one GET per keyword in list order, each issued
\* after the previous response came back and none repeated, then at most one
\* send, issued after the last response; status 0 comes only after one send.
C9_CallOrder ==
    /\ Len(calls) <= Len(ExpectedCalls)
    /\ calls = SubSeq(ExpectedCalls, 1, Len(calls))
    /\ GetsIssued - Len(resp) = IF pc = "wait" THEN 1 ELSE 0
    /\ Len(sent) <= 1
    /\ Len(calls) > Len(keywords) <=> Len(sent) = 1
    /\ Len(sent) = 1 => Len(resp) = Len(keywords)
    /\ (pc = "done" /\ exit = <<0>>) => calls = ExpectedCalls

C9_Witness ==
    /\ pc = "done"
    /\ exit = <<0>>
    /\ calls = ExpectedCalls
    /\ resp[2].kind = "non200"
    /\ resp[6].kind = "non200"

Malformed ==
    \E k \in 1..Len(resp) : \E j \in 1..Len(resp[k].body) : ~HasKey(resp[k].body[j])

\* C10: once a status-200 response carried a record without noticeId, the
\* record stays in the collected list, the run never builds a CSV, never
\* calls the mailer and never ends with status 0; the failure the record
\* causes is the KeyError of the merge, raised after the last keyword's
\* response.
C10_MissingNoticeIdAborts ==
    Malformed =>
        /\ all_opps = OkBodies
        /\ opps = <<>>
        /\ csv_data = <<>>
        /\ sent = <<>>
        /\ Len(calls) <= Len(keywords)
        /\ exit # <<0>>
        /\ err = "KeyError" => Len(resp) = Len(keywords) /\ exit = <<1>>
        /\ (pc = "done" /\ err \notin {"Timeout", "JSONDecodeError"}) => err = "KeyError"
        /\ pc \in {"fetch", "wait", "dedup", "done"}

C10_Witness ==
    /\ pc = "done"
    /\ err = "KeyError"
    /\ resp[1].body = <<[title |-> <<"a">>]>>
    /\ resp[4].body = <<[noticeId |-> <<"n2">>, title |-> <<"a">>]>>
    /\ Len(calls) = Len(keywords)

====
